---- MODULE Spec2Model ----
(***************************************************************************)
(* State-machine model of the YouTube title / thumbnail front end.         *)
(*                                                                         *)
(*   App                (src/unnamed/part_000)   session mode and titles   *)
(*   TitleGenerator     (src/components/TitleGenerator.tsx)  topic form    *)
(*   ThumbnailGenerator (src/components/ThumbnailGenerator.tsx) workspace  *)
(*   geminiService      (src/unnamed/part_003)   decoding of responses     *)
(*                                                                         *)
(* app and ws are the committed render of App and of the workspace: what   *)
(* the page shows and what a handler invoked now closes over.  A user      *)
(* event runs its handler on those values and is rendered, effects         *)
(* included, before the next event.  The part of an async handler that     *)
(* follows an await runs later, as a step of its own, on the values the    *)
(* handler closed over when it was invoked; the updates it queues are      *)
(* rendered by a later step, and the passive effect of that render runs    *)
(* later again, so that a user event can fall in between.  queued and      *)
(* pending hold what is queued and whether an effect is still to run.      *)
(***************************************************************************)
EXTENDS Integers, Sequences, FiniteSets, TLC

\* ------------------------------------------------------------------ bounds
MaxHistory == 3     \* longest thumbnail history explored
MaxInFlight == 2    \* most awaits outstanding at once
MaxRefs == 1        \* most style references explored together with analysis
MaxParts == 3       \* most parts of an image answer explored
MaxBgs == 2         \* most background images explored together with generation
MaxEdited == 2      \* longest thumbnail history explored together with editing

\* ------------------------------------------------------------------ values
NULL == "<null>"

\* enum AppState
TITLE_INPUT == "TITLE_INPUT"
GENERATING_TITLES == "GENERATING_TITLES"
TITLES_DISPLAYED == "TITLES_DISPLAYED"
THUMBNAIL_INPUT == "THUMBNAIL_INPUT"

\* type Language
Language == {"en", "ar"}

\* enum LoadingState
NONE == "NONE"
ANALYZING == "ANALYZING"
GENERATING == "GENERATING"
EDITING == "EDITING"
SUGGESTING == "SUGGESTING"

\* Typed text is a sequence of characters; " " is the whitespace one.
Chars == {" ", "a"}
Texts == {<<>>, <<" ">>, <<"a">>}

RECURSIVE TrimStart(_)
TrimStart(s) == IF s /= <<>> /\ Head(s) = " " THEN TrimStart(Tail(s)) ELSE s

RECURSIVE TrimEnd(_)
TrimEnd(s) ==
  IF s /= <<>> /\ s[Len(s)] = " " THEN TrimEnd(SubSeq(s, 1, Len(s) - 1)) ELSE s

\* String.prototype.trim
Trim(s) == TrimEnd(TrimStart(s))

\* JavaScript truthiness of a string or null (typed text is truthy when it
\* is not the empty sequence)
Truthy(v) == v /= NULL /\ v /= ""

\* Array.prototype.slice(0, n)
Slice0(s, n) == SubSeq(s, 1, IF n < Len(s) THEN n ELSE Len(s))

\* ------------------------------------------------- responses of the service
\* A JSON text answer: the transport fails, the text is no JSON, or it is a
\* JSON value.  An array item is a string or something else (a number).
Str(v) == [t |-> "string", v |-> v]
Num == [t |-> "number", v |-> "0"]
NumS == [t |-> "number", v |-> <<>>]
Reject == [kind |-> "reject", items |-> <<>>]
NotJson == [kind |-> "notjson", items |-> <<>>]
JsonObject == [kind |-> "object", items |-> <<>>]
JsonArray(items) == [kind |-> "array", items |-> items]

\* generateTitles / getImprovementSuggestions: the decoded list, or a throw
ParseStringList(resp) ==
  IF resp.kind = "array" /\ \A k \in 1..Len(resp.items) : resp.items[k].t = "string"
  THEN [ok |-> TRUE, value |-> [k \in 1..Len(resp.items) |-> resp.items[k].v]]
  ELSE [ok |-> FALSE, value |-> <<>>]

generateTitles(resp) == ParseStringList(resp)

Titles == {"t1", "t2", ""}
TitleResponses ==
  {Reject, NotJson, JsonObject, JsonArray(<<Num>>), JsonArray(<<Str("t1"), Num>>),
   JsonArray(<<>>), JsonArray(<<Str("t1")>>), JsonArray(<<Str("t2"), Str("t1")>>),
   JsonArray(<<Str("t1"), Str("")>>)}

\* ------------------------------------------------------------------- state
VARIABLES
  app,         \* App: appState, topic, generatedTitles, selectedTitle, language,
               \* error, as last rendered
  queued,      \* App: the same state with the updates yet to be rendered applied
  form,        \* TitleGenerator: its own topic and language (while mounted)
  titleCalls,  \* generateTitles requests in flight, oldest first
  ws,          \* ThumbnailGenerator: the state of the workspace as last rendered
  pending,     \* ThumbnailGenerator: the updates and the effect yet to be processed
  wsCalls,     \* awaits of workspace handlers in flight, oldest first
  last         \* the event that produced this state (history variable)

vars == <<app, queued, form, titleCalls, ws, pending, wsCalls, last>>

NoCall == [kind |-> "none"]
NoResp == [ok |-> TRUE, value |-> NULL]
\* op: what happened; call: the await it started or finished; result: what
\* the service call returned to the handler (ok = FALSE: it threw)
Event(op, call, result) == [op |-> op, call |-> call, result |-> result]
\* the result of a handler that awaits nothing: did it act, or return early?
Did(acted) == [ok |-> acted, value |-> NULL]

\* useState initial values of App
AppInit ==
  [appState |-> TITLE_INPUT, topic |-> <<>>, generatedTitles |-> <<>>,
   selectedTitle |-> NULL, language |-> "en", error |-> NULL]

\* useState initial values of TitleGenerator, from the props of its mount
FormMount(a) == [topic |-> a.topic, language |-> a.language]
FormInit == FormMount(AppInit)

\* an uploaded image; NoImage stands for null
NoImage == [file |-> NULL, preview |-> NULL]

\* useState initial values of ThumbnailGenerator
WsInit ==
  [numSubjects |-> 1, mainSubject1 |-> NoImage, mainSubject2 |-> NoImage,
   layoutPreset |-> "Default", backgroundImages |-> <<>>,
   referenceFiles |-> <<>>, referencePreviews |-> <<>>, analyzedStyle |-> NULL,
   thumbnailHistory |-> <<>>, currentIndex |-> -1,
   styleStrength |-> 80,
   editInstruction |-> <<>>, suggestions |-> <<>>,
   loading |-> NONE, error |-> NULL]

\* the title form is rendered in every mode but the workspace
FormMounted == app.appState /= THUMBNAIL_INPUT
WsMounted == app.appState = THUMBNAIL_INPUT
isLoading == app.appState = GENERATING_TITLES

\* An unmounted component keeps no state; the awaits of its handlers stay in
\* flight, and what they set afterwards is dropped.
Orphan(calls) == [k \in 1..Len(calls) |-> [calls[k] EXCEPT !.live = FALSE]]

RemoveAt(s, k) == SubSeq(s, 1, k - 1) \o SubSeq(s, k + 1, Len(s))

\* ---------------------------------------------------------------- App
\* handleStartOver: the state updates
StartOver(a) ==
  [a EXCEPT !.appState = TITLE_INPUT, !.topic = <<>>, !.generatedTitles = <<>>,
            !.selectedTitle = NULL, !.error = NULL]

\* renderContent: the THUMBNAIL_INPUT case with no selected title starts over.
\* The state is set while App renders, so React renders App again before it
\* commits: the commit is that of the second render.
renderContent(a) ==
  IF a.appState = THUMBNAIL_INPUT /\ ~Truthy(a.selectedTitle) THEN StartOver(a) ELSE a

\* ------------------------------------------------ responses: images, text
\* An image answer: the transport fails, or the first candidate's parts.
Img(d) == [t |-> "inlineData", data |-> d]
Txt == [t |-> "text", data |-> ""]
Parts(ps) == [kind |-> "parts", items |-> ps]
Payloads == {"A", "B"}
ImageResponses ==
  {Reject, Parts(<<>>), Parts(<<Txt>>), Parts(<<Txt, Img("A")>>), Parts(<<Img("B"), Txt>>)}
    \cup {Parts(<<Img(d)>>) : d \in Payloads}

\* generateThumbnail, after the request: parts[0] decides
generateThumbnail(resp) ==
  IF resp.kind = "parts" /\ Len(resp.items) > 0 /\ resp.items[1].t = "inlineData"
  THEN [ok |-> TRUE, value |-> "data:image/png;base64," \o resp.items[1].data]
  ELSE [ok |-> FALSE, value |-> NULL]

\* editThumbnail, after the request: the same decoding
editThumbnail(resp) ==
  IF resp.kind = "parts" /\ Len(resp.items) > 0 /\ resp.items[1].t = "inlineData"
  THEN [ok |-> TRUE, value |-> "data:image/png;base64," \o resp.items[1].data]
  ELSE [ok |-> FALSE, value |-> NULL]

\* analyzeStyleReferences: response.text as it comes
Text(v) == [kind |-> "text", items |-> v]
StyleResponses == {Reject, Text("bold, red"), Text("")}
analyzeStyleReferences(resp) ==
  IF resp.kind = "text" THEN [ok |-> TRUE, value |-> resp.items]
  ELSE [ok |-> FALSE, value |-> NULL]

\* getImprovementSuggestions: a JSON array of strings, as for the titles
SuggestionResponses ==
  {Reject, NotJson, JsonArray(<<NumS>>), JsonArray(<<>>),
   JsonArray(<<Str(<<"a">>)>>), JsonArray(<<Str(<<" ">>), Str(<<"a">>)>>)}
getImprovementSuggestions(resp) == ParseStringList(resp)

\* ------------------------------------------------------------- uploads
MaxUploadBytes == 4 * 1024 * 1024
MainFiles == {"ok.png", "big.png"}
RefFiles == {"ref.png"}
size(file) == IF file = "big.png" THEN MaxUploadBytes + 1 ELSE MaxUploadBytes
fileToBase64(file) == "data:image/png;base64," \o file
MaxReferences == 3
MaxBackgrounds == 5
\* what one use of a file input with `multiple` selects
RefSelections == {<<"ref.png">>, <<"big.png", "ref.png">>}
BgSelections == {<<"bg.png">>, <<"big.png", "bg.png">>}

\* ------------------------------------------------------ ThumbnailGenerator
\* const currentThumbnail = thumbnailHistory[currentIndex] || null
CurrentThumbnail(w) ==
  IF w.currentIndex >= 0 /\ w.currentIndex < Len(w.thumbnailHistory)
     /\ Truthy(w.thumbnailHistory[w.currentIndex + 1])
  THEN w.thumbnailHistory[w.currentIndex + 1]
  ELSE NULL

\* const canUndo = currentIndex > 0; const canRedo = currentIndex < length - 1
canUndo(w) == w.currentIndex > 0
canRedo(w) == w.currentIndex < Len(w.thumbnailHistory) - 1

\* ------------------------------------------------- the thumbnail request
LayoutPresets == {"Default", "Versus/Comparison", "Collaboration"}
Files == {"ok.png", "big.png", "ref.png", "bg.png"}

\* url.substring(url.indexOf(",") + 1): what follows the first comma of a data
\* URL (the URLs of fileToBase64 have their only comma after "base64")
pureBase64(url) == CHOOSE d \in Files : url = "data:image/png;base64," \o d

\* url.substring(url.indexOf(":") + 1, url.indexOf(";"))
mimeTypeOf(url) == CHOOSE m \in {"image/png"} : \E d \in Files : url = "data:" \o m \o ";base64," \o d

InlineData(url) == [data |-> pureBase64(url), mimeType |-> mimeTypeOf(url)]

\* faulty variant: the subject count is not looked at
LayoutSentence_AnyCount(layout, numSubjects) ==
  IF layout = "Versus/Comparison"
  THEN "Create a composition with the two subjects on opposing sides. "
  ELSE IF layout = "Collaboration"
  THEN "Place the two subjects side-by-side in a friendly composition. "
  ELSE "Place the main subject(s) prominently. "

\* generateThumbnail: the sentence that follows the layout's name
LayoutSentence(layout, numSubjects) ==
  IF layout = "Versus/Comparison" /\ numSubjects = 2
  THEN "Create a composition with the two subjects on opposing sides. "
  ELSE IF layout = "Collaboration" /\ numSubjects = 2
  THEN "Place the two subjects side-by-side in a friendly composition. "
  ELSE "Place the main subject(s) prominently. "

\* handleGenerateClick: the arguments of generateThumbnail other than the
\* style, as the handler closed over them
GenerateArgs(a, w) ==
  [title |-> a.selectedTitle, language |-> a.language, numSubjects |-> w.numSubjects,
   mainSubject1B64 |-> w.mainSubject1.preview,
   mainSubject2B64 |-> w.mainSubject2.preview,
   backgroundPreviews |-> [j \in 1..Len(w.backgroundImages) |-> w.backgroundImages[j].preview],
   layout |-> w.layoutPreset, styleStrength |-> w.styleStrength]

NoArgs ==
  [title |-> NULL, language |-> "en", numSubjects |-> 1, mainSubject1B64 |-> NULL,
   mainSubject2B64 |-> NULL, backgroundPreviews |-> <<>>, layout |-> "Default",
   styleStrength |-> 80]

\* faulty variant: a held second photo is sent whatever the subject count
SendsSecond_WhenHeld(g) == Truthy(g.mainSubject2B64)

\* generateThumbnail: mainSubject2Base64 && numSubjects === 2
SendsSecond(g) == Truthy(g.mainSubject2B64) /\ g.numSubjects = 2

\* generateThumbnail up to its request: the prompt, piece by piece in the
\* order it is built, and the image parts in the order they are pushed (the
\* text part is put in front of them)
generateThumbnailRequest(g, styleDescription) ==
  LET one == Truthy(g.mainSubject1B64)
      two == SendsSecond(g)
      prompt ==
        <<"**CRITICAL INSTRUCTION**: ",
          "The video title is \"" \o g.title \o "\".\n\n",
          IF g.language = "ar" THEN "**Text Language**: Arabic" ELSE "**Text Language**: English",
          "**Main Subjects**: You are provided with " \o ToString(g.numSubjects) \o " image(s)">>
        \o (IF one THEN <<"- Image 1 is the main subject (or subject 1).\n">> ELSE <<>>)
        \o (IF two THEN <<"- Image 2 is subject 2.\n">> ELSE <<>>)
        \o <<"\n**Layout**: Arrange the subject(s) according to the \"" \o g.layout \o "\" layout. ",
             LayoutSentence(g.layout, g.numSubjects),
             "The title text must be placed strategically and be highly visible.\n\n">>
        \o (IF Len(g.backgroundPreviews) > 0
            THEN <<"**Provided Background/Context Images**: ">> ELSE <<>>)
        \o (IF Truthy(styleDescription)
            THEN <<"**Design Style**: " \o ToString(g.styleStrength) \o "% strength: \n"
                     \o styleDescription \o "\n\n">>
            ELSE <<>>)
        \o <<"Remember, generate a polished, professional, complete thumbnail">>
      images ==
        (IF one THEN <<InlineData(g.mainSubject1B64)>> ELSE <<>>)
        \o (IF two THEN <<InlineData(g.mainSubject2B64)>> ELSE <<>>)
        \o [j \in 1..Len(g.backgroundPreviews) |-> InlineData(g.backgroundPreviews[j])]
  IN [text |-> prompt, inlineData |-> images]

NoRequest == [text |-> <<>>, inlineData |-> <<>>]

\* An await in flight, with what the handler closed over when it was invoked.
\* (Only what the rest of the handler reads is kept; thumb is the thumbnail
\* whose commit started a suggestion fetch, style is styleToUse.)
WsCall(kind, w) ==
  LET appends == kind \in {"generate", "generateAnalyze", "edit"}
      analyzes == kind \in {"analyze", "generateAnalyze"}
  IN [kind |-> kind, live |-> TRUE,
      hist |-> IF appends THEN w.thumbnailHistory ELSE <<>>,
      idx |-> IF appends THEN w.currentIndex ELSE -1,
      refs |-> IF analyzes THEN w.referencePreviews ELSE <<>>,
      thumb |-> IF kind = "suggest" THEN CurrentThumbnail(w) ELSE NULL,
      style |-> IF kind = "generate" THEN w.analyzedStyle ELSE NULL,
      args |-> IF kind \in {"generate", "generateAnalyze"} THEN GenerateArgs(app, w)
               ELSE NoArgs,
      req |-> IF kind = "generate"
              THEN generateThumbnailRequest(GenerateArgs(app, w), w.analyzedStyle)
              ELSE NoRequest,
      instr |-> <<>>, via |-> "-", slot |-> "-", files |-> <<>>]

\* handleGetSuggestions up to its await
handleGetSuggestions(w) == [w EXCEPT !.loading = SUGGESTING]

\* useEffect(..., [currentThumbnail]): will the effect of the render w, which
\* follows the render ws, call handleGetSuggestions?
EffectFires(w) ==
  /\ CurrentThumbnail(w) /= CurrentThumbnail(ws)
  /\ CurrentThumbnail(w) /= NULL
  /\ w.suggestions = <<>>
  /\ w.loading = NONE

\* Nothing queued and no effect to run: the state is what was rendered.
Idle(w) == [state |-> w, effect |-> FALSE]

\* The state updates of a handler that ran on the render ws: sets names the
\* state variables it set, w holds the values it set them to.  They are
\* queued behind the updates already pending.
Queued(w, sets) ==
  [f \in DOMAIN ws |-> IF f \in sets THEN w[f] ELSE pending.state[f]]

\* React runs a passive effect that is still pending before it renders
\* again: the effect's handleGetSuggestions sets loading after the updates
\* already queued, and sends its request.
Flushed(s) == IF pending.effect THEN handleGetSuggestions(s) ELSE s
FlushedCalls(calls) ==
  IF pending.effect THEN Append(calls, WsCall("suggest", ws)) ELSE calls

\* One render of App and of the child it mounts: a0 is the state of App
\* with everything queued applied, f the state of the title form, s that of
\* the workspace.  Which child is mounted follows appState; a TitleGenerator
\* that stays mounted keeps its state, whatever its props, and a workspace
\* that unmounts leaves its awaits in flight.  In a workspace that stays
\* mounted the pending effect runs first, then the commit.  sync: the render
\* ends a user event, and React runs the effect of the new render before the
\* event returns, so that handleGetSuggestions has run up to its await and
\* what it set is queued; the effect of a render that React scheduled itself
\* is left to a later step.
Rendered(a0, f, s, calls, sync) ==
  LET a == renderContent(a0)
      wasWs == app.appState = THUMBNAIL_INPUT
      isWs == a.appState = THUMBNAIL_INPUT
      w == Flushed(s)
      fires == EffectFires(w)
  IN /\ app' = a
     /\ queued' = a
     /\ form' = IF isWs THEN FormInit
                ELSE IF wasWs THEN FormMount(a)
                ELSE f
     /\ ws' = IF wasWs /\ isWs THEN w ELSE WsInit
     /\ pending' = IF wasWs /\ isWs
                   THEN IF sync /\ fires THEN Idle(handleGetSuggestions(w))
                        ELSE [state |-> w, effect |-> fires]
                   ELSE Idle(WsInit)
     /\ wsCalls' = IF wasWs /\ isWs
                   THEN IF sync /\ fires
                        THEN Append(FlushedCalls(calls), WsCall("suggest", w))
                        ELSE FlushedCalls(calls)
                   ELSE IF wasWs THEN Orphan(FlushedCalls(calls))
                   ELSE calls
     /\ Len(titleCalls) + Len(wsCalls') <= MaxInFlight

\* A user event of the workspace: the handler ran on the render ws, and what
\* it set is rendered, with everything else that is queued, before the next
\* event.  A handler that set nothing causes no render.
Commit(w, sets, calls, ev) ==
  IF sets = {}
  THEN /\ wsCalls' = calls
       /\ Len(titleCalls) + Len(wsCalls') <= MaxInFlight
       /\ last' = ev
       /\ UNCHANGED <<app, queued, form, titleCalls, ws, pending>>
  ELSE /\ Rendered(queued, form, Queued(w, sets), calls, TRUE)
       /\ last' = ev
       /\ UNCHANGED titleCalls

\* The continuation of an await of the workspace: what it sets is queued, to
\* the state s, and rendered by a later step.
Settle(s, calls, ev) ==
  /\ pending' = [pending EXCEPT !.state = s]
  /\ wsCalls' = calls
  /\ Len(titleCalls) + Len(wsCalls') <= MaxInFlight
  /\ last' = ev
  /\ UNCHANGED <<app, queued, form, titleCalls, ws>>

\* The render of queued updates, scheduled by React.
Render ==
  /\ queued /= app \/ pending.state /= ws
  /\ Rendered(queued, form, pending.state, wsCalls, FALSE)
  /\ last' = Event("Render", NoCall, NoResp)
  /\ UNCHANGED titleCalls

\* The passive effect of the last render, run by React on its own: the
\* condition held, so handleGetSuggestions runs up to its await.
useEffect ==
  /\ WsMounted
  /\ pending.effect
  /\ pending' = Idle(handleGetSuggestions(pending.state))
  /\ wsCalls' = Append(wsCalls, WsCall("suggest", ws))
  /\ Len(titleCalls) + Len(wsCalls') <= MaxInFlight
  /\ last' = Event("useEffect", NoCall, NoResp)
  /\ UNCHANGED <<app, queued, form, titleCalls, ws>>

\* ---------------------------------------------------- App: the handlers
\* TitleGenerator: onChange of the topic input (disabled while loading)
setTopic(t) ==
  /\ FormMounted /\ ~isLoading
  /\ t /= form.topic
  /\ Rendered(queued, [form EXCEPT !.topic = t], pending.state, wsCalls, TRUE)
  /\ last' = Event("setTopic", NoCall, NoResp)
  /\ UNCHANGED titleCalls

\* TitleGenerator: the two language buttons
setLanguage(l) ==
  /\ FormMounted
  /\ l /= form.language
  /\ Rendered(queued, [form EXCEPT !.language = l], pending.state, wsCalls, TRUE)
  /\ last' = Event("setLanguage", NoCall, NoResp)
  /\ UNCHANGED titleCalls

\* handleGenerateTitles up to its await
handleGenerateTitles(a, newTopic, lang) ==
  [a EXCEPT !.topic = newTopic, !.language = lang,
            !.appState = GENERATING_TITLES, !.error = NULL]

\* TitleGenerator.handleSubmit, on the props of the render
handleSubmit ==
  /\ FormMounted
  /\ IF Trim(form.topic) /= <<>> /\ ~isLoading
     THEN /\ Len(titleCalls) + Len(wsCalls) < MaxInFlight
          /\ Rendered(handleGenerateTitles(queued, form.topic, form.language), form,
                      pending.state, wsCalls, TRUE)
          /\ titleCalls' = Append(titleCalls, [kind |-> "titles", topic |-> form.topic,
                                                 lang |-> form.language])
          /\ last' = Event("handleSubmit", NoCall, Did(TRUE))
     ELSE /\ last' = Event("handleSubmit", NoCall, Did(FALSE))
          /\ UNCHANGED <<app, queued, form, titleCalls, ws, pending, wsCalls>>

\* A faulty continuation that stores the returned titles without the empty ones.
TitlesSettled_DropsEmpty(a, r) ==
  IF r.ok
  THEN [a EXCEPT !.generatedTitles = SelectSeq(r.value, LAMBDA t : t /= ""),
                 !.appState = TITLES_DISPLAYED]
  ELSE [a EXCEPT !.error = "Failed to generate titles. Please try again.",
                 !.appState = TITLE_INPUT]

\* handleGenerateTitles after its await: the try and the catch
TitlesSettled(a, r) ==
  IF r.ok
  THEN [a EXCEPT !.generatedTitles = r.value, !.appState = TITLES_DISPLAYED]
  ELSE [a EXCEPT !.error = "Failed to generate titles. Please try again.",
                 !.appState = TITLE_INPUT]

\* The continuation of handleGenerateTitles: what it sets is queued, and
\* rendered by a later step.
TitlesDone(k, resp) ==
  /\ k \in 1..Len(titleCalls)
  /\ LET r == generateTitles(resp)
     IN /\ queued' = TitlesSettled(queued, r)
        /\ last' = Event("TitlesDone", titleCalls[k], r)
  /\ titleCalls' = RemoveAt(titleCalls, k)
  /\ UNCHANGED <<app, form, ws, pending, wsCalls>>

\* handleTitleSelect: a click on one of the titles the page lists
handleTitleSelect(title) ==
  /\ FormMounted
  /\ \E k \in 1..Len(app.generatedTitles) : app.generatedTitles[k] = title
  /\ Rendered([queued EXCEPT !.selectedTitle = title, !.appState = THUMBNAIL_INPUT],
              form, pending.state, wsCalls, TRUE)
  /\ last' = Event("handleTitleSelect", NoCall, NoResp)
  /\ UNCHANGED titleCalls

\* handleStartOver: the button is shown outside TITLE_INPUT
handleStartOver ==
  /\ app.appState /= TITLE_INPUT
  /\ Rendered(StartOver(queued), form, pending.state, wsCalls, TRUE)
  /\ last' = Event("handleStartOver", NoCall, NoResp)
  /\ UNCHANGED titleCalls

\* onBack: Back to Titles
onBack ==
  /\ WsMounted
  /\ Rendered([queued EXCEPT !.appState = TITLES_DISPLAYED], form, pending.state,
              wsCalls, TRUE)
  /\ last' = Event("onBack", NoCall, NoResp)
  /\ UNCHANGED titleCalls

\* ------------------------------------- ThumbnailGenerator: the handlers
\* the await k of a handler of the mounted workspace
Awaits(k, kinds) ==
  /\ WsMounted
  /\ k \in 1..Len(wsCalls)
  /\ wsCalls[k].live
  /\ wsCalls[k].kind \in kinds

\* A faulty updateHistory that appends without slicing at the cursor.
updateHistory_NoSlice(w, hist, idx, newThumbnail) ==
  LET newHistory == Append(hist, newThumbnail)
  IN [w EXCEPT !.thumbnailHistory = newHistory, !.currentIndex = Len(newHistory) - 1]

\* updateHistory, on the history and cursor of the closure that calls it
updateHistory(w, hist, idx, newThumbnail) ==
  LET newHistory == Append(SubSeq(hist, 1, idx + 1), newThumbnail)
  IN [w EXCEPT !.thumbnailHistory = newHistory, !.currentIndex = Len(newHistory) - 1]

\* handleUndo / handleRedo: the buttons are rendered with a thumbnail
handleUndo ==
  /\ WsMounted /\ CurrentThumbnail(ws) /= NULL
  /\ Commit([ws EXCEPT !.currentIndex = ws.currentIndex - 1],
            IF canUndo(ws) THEN {"currentIndex"} ELSE {}, wsCalls,
            Event("handleUndo", NoCall, Did(canUndo(ws))))

handleRedo ==
  /\ WsMounted /\ CurrentThumbnail(ws) /= NULL
  /\ Commit([ws EXCEPT !.currentIndex = ws.currentIndex + 1],
            IF canRedo(ws) THEN {"currentIndex"} ELSE {}, wsCalls,
            Event("handleRedo", NoCall, Did(canRedo(ws))))

\* the subject count buttons
setNumSubjects(n) ==
  /\ WsMounted /\ n /= ws.numSubjects
  /\ Commit([ws EXCEPT !.numSubjects = n], {"numSubjects"}, wsCalls,
            Event("setNumSubjects", NoCall, NoResp))

\* the layout preset buttons, rendered with two subjects
setLayoutPreset(p) ==
  /\ WsMounted /\ ws.numSubjects > 1
  /\ p \in LayoutPresets /\ p /= ws.layoutPreset
  /\ Commit([ws EXCEPT !.layoutPreset = p], {"layoutPreset"}, wsCalls,
            Event("setLayoutPreset", NoCall, NoResp))

\* positions of the style strength slider: its least one and the initial one
Strengths == {10, 80}

\* the style strength slider (10 to 100), rendered once a style is analyzed
setStyleStrength(v) ==
  /\ WsMounted /\ Truthy(ws.analyzedStyle)
  /\ v \in 10..100 /\ v /= ws.styleStrength
  /\ Commit([ws EXCEPT !.styleStrength = v], {"styleStrength"}, wsCalls,
            Event("setStyleStrength", NoCall, NoResp))

\* onChange of the edit input, rendered with a thumbnail
setEditInstruction(t) ==
  /\ WsMounted /\ CurrentThumbnail(ws) /= NULL
  /\ t /= ws.editInstruction
  /\ Commit([ws EXCEPT !.editInstruction = t], {"editInstruction"}, wsCalls,
            Event("setEditInstruction", NoCall, NoResp))

\* handleFileChange(e, 'main1' | 'main2'): the size check, then the encoding.
\* The second slot is rendered in two-subject mode only.
\* faulty variant: a file of exactly the limit is refused
TooLarge_AtLimit(file) == size(file) >= MaxUploadBytes

\* file.size > 4 * 1024 * 1024
TooLarge(file) == size(file) > MaxUploadBytes

handleFileChangeMain(slot, file) ==
  /\ WsMounted
  /\ slot = "main2" => ws.numSubjects = 2
  /\ LET c == [WsCall("encodeMain", ws) EXCEPT !.slot = slot, !.files = <<file>>]
     IN IF TooLarge(file)
        THEN Commit([ws EXCEPT !.error = "Image file is too large. Max 4MB."], {"error"},
                    wsCalls, Event("handleFileChange", c, Did(FALSE)))
        ELSE Commit([ws EXCEPT !.error = NULL], {"error"}, Append(wsCalls, c),
                    Event("handleFileChange", c, Did(TRUE)))

\* handleFileChange(e, 'reference'): the input is rendered below three previews
handleFileChangeReference(files) ==
  /\ WsMounted
  /\ Len(ws.referencePreviews) < MaxReferences
  /\ files /= <<>>
  /\ LET newFiles == Slice0(ws.referenceFiles \o files, MaxReferences)
         c == [WsCall("encodeReference", ws) EXCEPT !.files = newFiles]
     IN Commit([ws EXCEPT !.referenceFiles = newFiles], {"referenceFiles"},
               Append(wsCalls, c),
               Event("handleFileChange", c, Did(TRUE)))

\* handleFileChange(e, 'background'): the input is rendered below five images;
\* nothing is set before the await
handleFileChangeBackground(files) ==
  /\ WsMounted
  /\ Len(ws.backgroundImages) < MaxBackgrounds
  /\ files /= <<>>
  /\ LET c == [WsCall("encodeBackground", ws) EXCEPT !.files = files]
     IN Commit(ws, {}, Append(wsCalls, c), Event("handleFileChange", c, Did(TRUE)))

\* faulty variant: the background list is appended to without the slice
FileSettled_NoCap(w, c, ok) ==
  LET newImage == [file |-> c.files[1], preview |-> fileToBase64(c.files[1])]
      newImages == [j \in 1..Len(c.files) |->
                      [file |-> c.files[j], preview |-> fileToBase64(c.files[j])]]
  IN IF ~ok THEN w
     ELSE IF c.kind = "encodeReference"
       THEN [w EXCEPT !.referencePreviews =
                        [j \in 1..Len(c.files) |-> fileToBase64(c.files[j])],
                      !.analyzedStyle = NULL]
     ELSE IF c.kind = "encodeBackground"
       THEN [w EXCEPT !.backgroundImages = w.backgroundImages \o newImages]
     ELSE IF c.slot = "main1" THEN [w EXCEPT !.mainSubject1 = newImage]
     ELSE [w EXCEPT !.mainSubject2 = newImage]

\* handleFileChange after await fileToBase64, which resolved (ok) or rejected
FileSettled(w, c, ok) ==
  LET newImage == [file |-> c.files[1], preview |-> fileToBase64(c.files[1])]
      newImages == [j \in 1..Len(c.files) |->
                      [file |-> c.files[j], preview |-> fileToBase64(c.files[j])]]
  IN IF ~ok THEN w
     ELSE IF c.kind = "encodeReference"
       THEN [w EXCEPT !.referencePreviews =
                        [j \in 1..Len(c.files) |-> fileToBase64(c.files[j])],
                      !.analyzedStyle = NULL]
     ELSE IF c.kind = "encodeBackground"
       THEN [w EXCEPT !.backgroundImages = Slice0(w.backgroundImages \o newImages,
                                                  MaxBackgrounds)]
     ELSE IF c.slot = "main1" THEN [w EXCEPT !.mainSubject1 = newImage]
     ELSE [w EXCEPT !.mainSubject2 = newImage]

FileEncoded(k, ok) ==
  /\ Awaits(k, {"encodeMain", "encodeReference", "encodeBackground"})
  /\ Settle(FileSettled(pending.state, wsCalls[k], ok), RemoveAt(wsCalls, k),
            Event("FileEncoded", wsCalls[k], Did(ok)))

\* handleRemoveReference: one button per rendered preview
handleRemoveReference(indexToRemove) ==
  /\ WsMounted
  /\ indexToRemove \in 0..(Len(ws.referencePreviews) - 1)
  /\ LET keep(sq) == IF indexToRemove < Len(sq) THEN RemoveAt(sq, indexToRemove + 1) ELSE sq
     IN Commit([ws EXCEPT !.referenceFiles = keep(ws.referenceFiles),
                          !.referencePreviews = keep(ws.referencePreviews),
                          !.analyzedStyle = IF Truthy(ws.analyzedStyle) THEN NULL
                                            ELSE ws.analyzedStyle],
               {"referenceFiles", "referencePreviews"}
                 \cup (IF Truthy(ws.analyzedStyle) THEN {"analyzedStyle"} ELSE {}),
               wsCalls, Event("handleRemoveReference", NoCall, NoResp))

\* handleRemoveBackgroundImage: one button per rendered image; the updater
\* function filters the list as queued
handleRemoveBackgroundImage(indexToRemove) ==
  /\ WsMounted
  /\ indexToRemove \in 0..(Len(ws.backgroundImages) - 1)
  /\ LET prev == pending.state.backgroundImages
         kept == IF indexToRemove < Len(prev) THEN RemoveAt(prev, indexToRemove + 1)
                 ELSE prev
     IN Commit([ws EXCEPT !.backgroundImages = kept], {"backgroundImages"},
               wsCalls, Event("handleRemoveBackgroundImage", NoCall, NoResp))

\* handleAnalyzeStyle: the button is rendered with a reference file and is
\* disabled while ANALYZING
handleAnalyzeStyle ==
  /\ WsMounted
  /\ Len(ws.referenceFiles) > 0 /\ ws.loading /= ANALYZING
  /\ IF Len(ws.referencePreviews) = 0
     THEN Commit(ws, {}, wsCalls, Event("handleAnalyzeStyle", NoCall, Did(FALSE)))
     ELSE LET c == WsCall("analyze", ws)
          IN Commit([ws EXCEPT !.loading = ANALYZING, !.error = NULL],
                    {"loading", "error"}, Append(wsCalls, c), Event("handleAnalyzeStyle", NoCall, Did(TRUE)))

\* handleAnalyzeStyle after its await: try, catch, finally
AnalyzeSettled(w, r) ==
  IF r.ok THEN [w EXCEPT !.analyzedStyle = r.value, !.loading = NONE]
  ELSE [w EXCEPT !.error = "Failed to analyze style references.", !.loading = NONE]

AnalyzeDone(k, resp) ==
  /\ Awaits(k, {"analyze"})
  /\ LET r == analyzeStyleReferences(resp)
     IN Settle(AnalyzeSettled(pending.state, r), RemoveAt(wsCalls, k),
               Event("AnalyzeDone", wsCalls[k], r))

\* The Generate button: disabled without subject 1 and while GENERATING or EDITING
GenerateEnabled(w) ==
  w.mainSubject1 /= NoImage /\ w.loading /= GENERATING /\ w.loading /= EDITING

\* A faulty check that looks at subject 1 only.
MissingSubject_FirstOnly(w) == w.mainSubject1 = NoImage

\* handleGenerateClick: the check of the subject photos
MissingSubject(w) ==
  w.mainSubject1 = NoImage \/ (w.numSubjects = 2 /\ w.mainSubject2 = NoImage)

\* handleGenerateClick: is the style analysis awaited first?
NeedsAnalysis(w) == Len(w.referencePreviews) > 0 /\ ~Truthy(w.analyzedStyle)

\* handleGenerateClick up to its first await
handleGenerateClick ==
  /\ WsMounted
  /\ GenerateEnabled(ws)
  /\ IF MissingSubject(ws)
     THEN Commit([ws EXCEPT !.error = "Please upload all main subject photos."],
                 {"error"}, wsCalls,
                 Event("handleGenerateClick", NoCall, Did(FALSE)))
     ELSE /\ ws.currentIndex + 2 <= MaxHistory
          /\ LET c == WsCall(IF NeedsAnalysis(ws) THEN "generateAnalyze" ELSE "generate", ws)
             IN Commit([ws EXCEPT !.loading = GENERATING, !.error = NULL,
                                  !.suggestions = <<>>],
                       {"loading", "error", "suggestions"}, Append(wsCalls, c), Event("handleGenerateClick", NoCall, Did(TRUE)))

\* A faulty continuation without the finally: a failed analysis leaves the
\* workspace busy.
GenerateAnalysisSettled_NoFinally(w, r) ==
  IF r.ok THEN [w EXCEPT !.analyzedStyle = r.value]
  ELSE [w EXCEPT !.error = "Failed to generate thumbnail."]

\* handleGenerateClick after await analyzeStyleReferences: on to the thumbnail
\* request, or to catch and finally
GenerateAnalysisSettled(w, r) ==
  IF r.ok THEN [w EXCEPT !.analyzedStyle = r.value]
  ELSE [w EXCEPT !.error = "Failed to generate thumbnail.", !.loading = NONE]

GenerateAnalyzed(k, resp) ==
  /\ Awaits(k, {"generateAnalyze"})
  /\ LET r == analyzeStyleReferences(resp)
     IN Settle(GenerateAnalysisSettled(pending.state, r),
               IF r.ok THEN Append(RemoveAt(wsCalls, k),
                                   [wsCalls[k] EXCEPT
                                      !.kind = "generate", !.style = r.value,
                                      !.req = generateThumbnailRequest(wsCalls[k].args,
                                                                       r.value)])
               ELSE RemoveAt(wsCalls, k),
               Event("GenerateAnalyzed", wsCalls[k], r))

\* A faulty continuation that empties the suggestions when the image arrives.
GenerateSettled_ClearsSuggestions(w, c, r) ==
  IF r.ok THEN [updateHistory(w, c.hist, c.idx, r.value)
                  EXCEPT !.suggestions = <<>>, !.loading = NONE]
  ELSE [w EXCEPT !.error = "Failed to generate thumbnail.", !.loading = NONE]

\* handleGenerateClick after await generateThumbnail: try, catch, finally
GenerateSettled(w, c, r) ==
  IF r.ok THEN [updateHistory(w, c.hist, c.idx, r.value) EXCEPT !.loading = NONE]
  ELSE [w EXCEPT !.error = "Failed to generate thumbnail.", !.loading = NONE]

GenerateDone(k, resp) ==
  /\ Awaits(k, {"generate"})
  /\ LET r == generateThumbnail(resp)
     IN Settle(GenerateSettled(pending.state, wsCalls[k], r), RemoveAt(wsCalls, k),
               Event("GenerateDone", wsCalls[k], r))

\* handleApplyEdit: the early return
EditIgnored(w, instruction) == CurrentThumbnail(w) = NULL \/ Trim(instruction) = <<>>

\* handleApplyEdit(instruction) up to its await
handleApplyEdit(instruction, via) ==
  IF EditIgnored(ws, instruction)
  THEN Commit(ws, {}, wsCalls, Event("handleApplyEdit", NoCall, Did(FALSE)))
  ELSE /\ ws.currentIndex + 2 <= MaxHistory
       /\ LET c == [WsCall("edit", ws) EXCEPT !.instr = instruction, !.via = via]
          IN Commit([ws EXCEPT !.loading = EDITING, !.error = NULL],
                    {"loading", "error"}, Append(wsCalls, c), Event("handleApplyEdit", NoCall, Did(TRUE)))

\* The Apply button: rendered with a thumbnail, disabled with blank text and
\* while EDITING
ApplyEnabled(w) ==
  CurrentThumbnail(w) /= NULL /\ Trim(w.editInstruction) /= <<>> /\ w.loading /= EDITING

ApplyClick ==
  /\ WsMounted /\ ApplyEnabled(ws)
  /\ handleApplyEdit(ws.editInstruction, "typed")

\* A suggestion button: rendered with a thumbnail, never disabled
SuggestionClick(j) ==
  /\ WsMounted /\ CurrentThumbnail(ws) /= NULL
  /\ j \in 1..Len(ws.suggestions)
  /\ handleApplyEdit(ws.suggestions[j], "suggestion")

\* A faulty continuation that empties the suggestions after a successful edit.
EditSettled_ClearsSuggestions(w, c, r) ==
  IF r.ok
  THEN [updateHistory(w, c.hist, c.idx, r.value)
          EXCEPT !.editInstruction = <<>>, !.suggestions = <<>>, !.loading = NONE]
  ELSE [w EXCEPT !.error = "Failed to apply the edit.", !.loading = NONE]

\* A faulty continuation that clears the typed instruction in the finally.
EditSettled_ClearsAlways(w, c, r) ==
  IF r.ok
  THEN [updateHistory(w, c.hist, c.idx, r.value)
          EXCEPT !.editInstruction = <<>>, !.loading = NONE]
  ELSE [w EXCEPT !.error = "Failed to apply the edit.", !.editInstruction = <<>>,
                 !.loading = NONE]

\* handleApplyEdit after its await: try, catch, finally
EditSettled(w, c, r) ==
  IF r.ok
  THEN [updateHistory(w, c.hist, c.idx, r.value)
          EXCEPT !.editInstruction = <<>>, !.loading = NONE]
  ELSE [w EXCEPT !.error = "Failed to apply the edit.", !.loading = NONE]

EditDone(k, resp) ==
  /\ Awaits(k, {"edit"})
  /\ LET r == editThumbnail(resp)
     IN Settle(EditSettled(pending.state, wsCalls[k], r), RemoveAt(wsCalls, k),
               Event("EditDone", wsCalls[k], r))

\* A faulty continuation whose catch surfaces the failure as an error.
SuggestionsSettled_SetsError(w, r) ==
  IF r.ok THEN [w EXCEPT !.suggestions = r.value, !.loading = NONE]
  ELSE [w EXCEPT !.error = "Failed to get suggestions", !.loading = NONE]

\* handleGetSuggestions after its await: try, catch, finally
SuggestionsSettled(w, r) ==
  IF r.ok THEN [w EXCEPT !.suggestions = r.value, !.loading = NONE]
  ELSE [w EXCEPT !.loading = NONE]

SuggestionsDone(k, resp) ==
  /\ Awaits(k, {"suggest"})
  /\ LET r == getImprovementSuggestions(resp)
     IN Settle(SuggestionsSettled(pending.state, r), RemoveAt(wsCalls, k),
               Event("SuggestionsDone", wsCalls[k], r))

\* faulty variant: what an unmounted handler sets reaches the mounted workspace
OrphanDone_Applies(k, continues) ==
  /\ k \in 1..Len(wsCalls)
  /\ ~wsCalls[k].live
  /\ \E resp \in StyleResponses :
       LET r == analyzeStyleReferences(resp)
       IN /\ r.ok
          /\ wsCalls' = IF continues /\ wsCalls[k].kind = "generateAnalyze"
                        THEN Append(RemoveAt(wsCalls, k),
                                    [wsCalls[k] EXCEPT
                                       !.kind = "generate", !.style = r.value,
                                       !.req = generateThumbnailRequest(wsCalls[k].args,
                                                                        r.value)])
                        ELSE RemoveAt(wsCalls, k)
  /\ last' = Event("OrphanDone", wsCalls[k], Did(continues))
  /\ pending' = IF WsMounted /\ continues /\ wsCalls[k].kind \in {"generate", "edit"}
                THEN [pending EXCEPT !.state = updateHistory(pending.state, wsCalls[k].hist,
                                                             wsCalls[k].idx, "A")]
                ELSE pending
  /\ UNCHANGED <<app, queued, form, titleCalls, ws>>

\* An await of a handler whose component has unmounted: the handler runs on,
\* and what it sets is dropped.  handleGenerateClick still sends its second
\* request after an analysis that succeeded, with the arguments of the click
\* and the style just returned.
OrphanDone(k, continues) ==
  /\ k \in 1..Len(wsCalls)
  /\ ~wsCalls[k].live
  /\ \E resp \in StyleResponses :
       LET r == analyzeStyleReferences(resp)
       IN /\ r.ok
          /\ wsCalls' = IF continues /\ wsCalls[k].kind = "generateAnalyze"
                        THEN Append(RemoveAt(wsCalls, k),
                                    [wsCalls[k] EXCEPT
                                       !.kind = "generate", !.style = r.value,
                                       !.req = generateThumbnailRequest(wsCalls[k].args,
                                                                        r.value)])
                        ELSE RemoveAt(wsCalls, k)
  /\ last' = Event("OrphanDone", wsCalls[k], Did(continues))
  /\ UNCHANGED <<app, queued, form, titleCalls, ws, pending>>

\* ------------------------------------------------------------ specification
\* The application after construction.
Init ==
  /\ app = AppInit
  /\ queued = AppInit
  /\ form = FormInit
  /\ titleCalls = <<>>
  /\ ws = WsInit
  /\ pending = Idle(WsInit)
  /\ wsCalls = <<>>
  /\ last = Event("Init", NoCall, NoResp)

\* The session: the title step, entering and leaving the workspace, and the
\* workspace as far as its subject inputs.
NextSession ==
  \/ \E t \in Texts : setTopic(t)
  \/ \E l \in Language : setLanguage(l)
  \/ handleSubmit
  \/ \E k \in 1..Len(titleCalls), resp \in TitleResponses : TitlesDone(k, resp)
  \/ \E title \in Titles : handleTitleSelect(title)
  \/ handleStartOver
  \/ onBack
  \/ \E n \in {1, 2} : setNumSubjects(n)
  \/ \E slot \in {"main1", "main2"}, file \in MainFiles : handleFileChangeMain(slot, file)
  \/ \E k \in 1..Len(wsCalls), ok \in BOOLEAN : FileEncoded(k, ok)
  \/ \E k \in 1..Len(wsCalls), continues \in BOOLEAN : OrphanDone(k, continues)
  \/ Render

SpecSession == Init /\ [][NextSession]_vars

\* The workspace as SpecSession reaches it: topic "a" submitted, the titles
\* ["t1"] returned, "t1" selected.
EnteredWorkspace ==
  /\ app = [AppInit EXCEPT !.appState = THUMBNAIL_INPUT, !.topic = <<"a">>,
                           !.generatedTitles = <<"t1">>, !.selectedTitle = "t1"]
  /\ queued = app
  /\ form = FormInit
  /\ titleCalls = <<>>
  /\ ws = WsInit
  /\ pending = Idle(WsInit)
  /\ wsCalls = <<>>

\* ... and "ok.png" uploaded as subject 1.
SubjectUploaded ==
  /\ app = [AppInit EXCEPT !.appState = THUMBNAIL_INPUT, !.topic = <<"a">>,
                           !.generatedTitles = <<"t1">>, !.selectedTitle = "t1"]
  /\ queued = app
  /\ form = FormInit
  /\ titleCalls = <<>>
  /\ ws = [WsInit EXCEPT !.mainSubject1 =
                           [file |-> "ok.png", preview |-> fileToBase64("ok.png")]]
  /\ pending = Idle(ws)
  /\ wsCalls = <<>>

InitWorkspace == EnteredWorkspace /\ last = Event("handleTitleSelect", NoCall, NoResp)
InitSubject == SubjectUploaded /\ last = Event("FileEncoded", NoCall, Did(TRUE))

\* The subject inputs and generation, from the workspace just entered.
NextSubjects ==
  \/ \E n \in {1, 2} : setNumSubjects(n)
  \/ \E slot \in {"main1", "main2"}, file \in MainFiles : handleFileChangeMain(slot, file)
  \/ \E k \in 1..Len(wsCalls), ok \in BOOLEAN : FileEncoded(k, ok)
  \/ handleGenerateClick
  \/ \E k \in 1..Len(wsCalls), resp \in ImageResponses : GenerateDone(k, resp)
  \/ \E k \in 1..Len(wsCalls), resp \in SuggestionResponses : SuggestionsDone(k, resp)
  \/ Render
  \/ useEffect

SpecSubjects == InitWorkspace /\ [][NextSubjects]_vars

\* Style references, their analysis and generation, with subject 1 uploaded.
NextStyle ==
  \/ \E file \in RefFiles :
       Len(ws.referenceFiles) < MaxRefs /\ handleFileChangeReference(<<file>>)
  \/ \E k \in 1..Len(wsCalls), ok \in BOOLEAN : FileEncoded(k, ok)
  \/ \E i \in 0..(Len(ws.referencePreviews) - 1) : handleRemoveReference(i)
  \/ handleAnalyzeStyle
  \/ \E k \in 1..Len(wsCalls), resp \in StyleResponses : AnalyzeDone(k, resp)
  \/ \E v \in Strengths : setStyleStrength(v)
  \/ handleGenerateClick
  \/ \E k \in 1..Len(wsCalls), resp \in StyleResponses : GenerateAnalyzed(k, resp)
  \/ \E k \in 1..Len(wsCalls), resp \in {Reject, Parts(<<Img("A")>>)} : GenerateDone(k, resp)
  \/ \E k \in 1..Len(wsCalls) : SuggestionsDone(k, Reject)
  \/ Render
  \/ useEffect
SpecStyle == InitSubject /\ [][NextStyle]_vars

\* Generation, editing, suggestions and the history, with subject 1 uploaded.
\* A call that appends is started up to MaxEdited entries.
EditRoom == ws.currentIndex + 2 <= MaxEdited
NextHistory ==
  \/ EditRoom /\ handleGenerateClick
  \/ \E k \in 1..Len(wsCalls), resp \in ImageResponses : GenerateDone(k, resp)
  \/ \E t \in Texts : setEditInstruction(t)
  \/ EditRoom /\ ApplyClick
  \/ \E j \in 1..Len(ws.suggestions) : EditRoom /\ SuggestionClick(j)
  \/ \E k \in 1..Len(wsCalls), resp \in ImageResponses : EditDone(k, resp)
  \/ \E k \in 1..Len(wsCalls), resp \in SuggestionResponses : SuggestionsDone(k, resp)
  \/ handleUndo
  \/ handleRedo
  \/ Render
  \/ useEffect
SpecHistory == InitSubject /\ [][NextHistory]_vars

\* The history and its cursor on their own: generation, undo and redo, up to
\* MaxHistory entries; the suggestion fetches fail.
NextCursor ==
  \/ handleGenerateClick
  \/ \E k \in 1..Len(wsCalls), d \in Payloads : GenerateDone(k, Parts(<<Img(d)>>))
  \/ \E k \in 1..Len(wsCalls) : SuggestionsDone(k, Reject)
  \/ handleUndo
  \/ handleRedo
  \/ Render
  \/ useEffect

SpecCursor == InitSubject /\ [][NextCursor]_vars

\* Leaving the workspace with calls in flight and entering it again.
NextVisits ==
  \/ handleGenerateClick
  \/ \E k \in 1..Len(wsCalls), resp \in ImageResponses : GenerateDone(k, resp)
  \/ \E k \in 1..Len(wsCalls), resp \in SuggestionResponses : SuggestionsDone(k, resp)
  \/ \E j \in 1..Len(ws.suggestions) : SuggestionClick(j)
  \/ \E k \in 1..Len(wsCalls), resp \in ImageResponses : EditDone(k, resp)
  \/ onBack
  \/ \E title \in Titles : handleTitleSelect(title)
  \/ handleFileChangeMain("main1", "ok.png")
  \/ \E k \in 1..Len(wsCalls), ok \in BOOLEAN : FileEncoded(k, ok)
  \/ \E k \in 1..Len(wsCalls), continues \in BOOLEAN : OrphanDone(k, continues)
  \/ Render
  \/ useEffect

SpecVisits == InitSubject /\ [][NextVisits]_vars

\* The file inputs of the workspace just entered, several files at a time,
\* encodings settling in any order. The background handlers and the reference
\* handlers share no state, and neither shares any with the subject input, so
\* the slice works on one of the three at a time.
NoReferences ==
  /\ ws.referenceFiles = <<>> /\ ws.referencePreviews = <<>>
  /\ \A k \in 1..Len(wsCalls) : wsCalls[k].kind /= "encodeReference"

NoSubject ==
  /\ ws.mainSubject1 = NoImage /\ ws.error = NULL
  /\ \A k \in 1..Len(wsCalls) : wsCalls[k].kind /= "encodeMain"
NoBackgrounds ==
  /\ ws.backgroundImages = <<>>
  /\ \A k \in 1..Len(wsCalls) : wsCalls[k].kind /= "encodeBackground"

NextUploads ==
  \/ \E file \in MainFiles :
       NoReferences /\ NoBackgrounds /\ handleFileChangeMain("main1", file)
  \/ \E files \in RefSelections :
       NoSubject /\ NoBackgrounds /\ handleFileChangeReference(files)
  \/ \E files \in BgSelections :
       NoSubject /\ NoReferences /\ handleFileChangeBackground(files)
  \/ \E k \in 1..Len(wsCalls), ok \in BOOLEAN : FileEncoded(k, ok)
  \/ \E i \in 0..(Len(ws.referencePreviews) - 1) : handleRemoveReference(i)
  \/ \E i \in 0..(Len(ws.backgroundImages) - 1) : handleRemoveBackgroundImage(i)
  \/ Render

SpecUploads == InitWorkspace /\ [][NextUploads]_vars

\* The inputs of the thumbnail request and the request sent: subject count,
\* layout preset, both subject photos and background images, from the
\* workspace just entered; the generation calls fail, so that the history
\* stays out of the way.
NextRequest ==
  \/ \E n \in {1, 2} : setNumSubjects(n)
  \/ \E p \in LayoutPresets : setLayoutPreset(p)
  \/ handleFileChangeMain("main1", "ok.png")
  \/ handleFileChangeMain("main2", "ref.png")
  \/ \E files \in BgSelections :
       /\ Len(ws.backgroundImages) + Len(files) <= MaxBgs
       /\ \A k \in 1..Len(wsCalls) : wsCalls[k].kind /= "encodeBackground"
       /\ handleFileChangeBackground(files)
  \/ \E k \in 1..Len(wsCalls) : FileEncoded(k, TRUE)
  \/ handleGenerateClick
  \/ \E k \in 1..Len(wsCalls) : GenerateDone(k, Reject)
  \/ Render

SpecRequest == InitWorkspace /\ [][NextRequest]_vars

\* The decoding of an image answer on its own: any answer of up to MaxParts
\* parts, handed to generateThumbnail or to editThumbnail.
PartsAnswers ==
  {Reject} \cup {Parts(ps) : ps \in UNION {[1..n -> {Txt, Img("A"), Img("B")}] : n \in 0..MaxParts}}

InitDecode ==
  /\ app = AppInit /\ queued = AppInit /\ form = FormInit /\ titleCalls = <<>>
  /\ ws = WsInit /\ pending = Idle(WsInit) /\ wsCalls = <<>>
  /\ \E fn \in {"generateThumbnail", "editThumbnail"}, resp \in PartsAnswers :
       last = Event("response", [kind |-> fn, resp |-> resp], NoResp)

DecodeGenerated ==
  /\ last.op = "response" /\ last.call.kind = "generateThumbnail"
  /\ last' = Event("generateThumbnail", last.call, generateThumbnail(last.call.resp))
  /\ UNCHANGED <<app, queued, form, titleCalls, ws, pending, wsCalls>>

DecodeEdited ==
  /\ last.op = "response" /\ last.call.kind = "editThumbnail"
  /\ last' = Event("editThumbnail", last.call, editThumbnail(last.call.resp))
  /\ UNCHANGED <<app, queued, form, titleCalls, ws, pending, wsCalls>>

NextDecode == DecodeGenerated \/ DecodeEdited

SpecDecode == InitDecode /\ [][NextDecode]_vars

\* The whole program: every step of every slice above is one of its steps.
Next ==
  \/ NextSession \/ NextSubjects \/ NextStyle \/ NextHistory
  \/ NextCursor \/ NextUploads \/ NextVisits \/ NextRequest \/ NextDecode
Spec == Init /\ [][Next]_vars

\* ------------------------------------------------------------------ claims
\* The state of the workspace: what was last rendered with the updates queued
\* since then applied.  It is what the next render shows, and it equals ws
\* when nothing is queued.
state == pending.state

\* The state of App, in the same sense: queued equals app when nothing is
\* queued.
session == queued

\* The steps of generate and edit that deliver an image.
Appended == last'.op \in {"GenerateDone", "EditDone"} /\ last'.result.ok

\* C1: whenever a generate or edit call succeeds, the new history is the
\* entries up to and including the cursor (as it stands when the result
\* arrives), followed by the new thumbnail, and the cursor is on that last
\* entry; this holds also after undo or redo during the call.
C1_AppendAtCursor ==
  [][Appended =>
       /\ state'.thumbnailHistory =
            Append(SubSeq(state.thumbnailHistory, 1, state.currentIndex + 1), last'.result.value)
       /\ state'.currentIndex = Len(state'.thumbnailHistory) - 1]_vars

\* The cursor is -1 exactly with an empty history and names an entry otherwise.
CursorInRange ==
  WsMounted =>
    IF state.thumbnailHistory = <<>> THEN state.currentIndex = -1
    ELSE state.currentIndex \in 0..(Len(state.thumbnailHistory) - 1)

\* Undo pressed with the first entry shown and redo with the last change
\* nothing.
NoOpAtTheEnds ==
  \/ last'.op = "handleUndo" /\ ws.currentIndex = 0
  \/ last'.op = "handleRedo" /\ ws.currentIndex = Len(ws.thumbnailHistory) - 1
  => UNCHANGED <<app, queued, form, titleCalls, ws, pending, wsCalls>>

\* C2: in every reachable workspace state the cursor is in range for the
\* history (-1 exactly when it is empty), and undo at index 0 and redo at the
\* last index are no-ops.
C2_CursorInRange == []CursorInRange /\ [][NoOpAtTheEnds]_vars

\* The title, analysis, generation and edit calls in flight.
GenerationCalls ==
  Len(titleCalls)
    + Cardinality({k \in 1..Len(wsCalls) :
                     wsCalls[k].kind \in {"analyze", "generateAnalyze", "generate", "edit"}})

\* C3: at most one generation-kind call (titles, analysis, generation, edit)
\* is in flight at any time.
C3_OneGenerationCall == GenerationCalls <= 1

\* C4: whenever a title call fails, the session is in TITLE_INPUT with an
\* error message and the list of generated titles is empty.
C4_FailedTitlesLeaveNoTitles ==
  last.op = "TitlesDone" /\ ~last.result.ok =>
    /\ session.appState = TITLE_INPUT
    /\ session.error /= NULL
    /\ session.generatedTitles = <<>>

\* The steps of a submit and of a title call that returned its list.
Submitted == last'.op = "handleSubmit"
TitlesArrived == last'.op = "TitlesDone" /\ last'.result.ok

\* C5: submitting a non-blank topic (no title request being awaited) moves the
\* session to GENERATING_TITLES and issues exactly one title request, for the
\* topic and language of the form; a request that returns the list L moves the
\* session to TITLES_DISPLAYED with generatedTitles = L, in order and
\* unfiltered; submitting a blank topic issues no request and changes nothing.
C5_SubmitAndStoreVerbatim ==
  [][/\ Submitted /\ Trim(form.topic) /= <<>> /\ ~isLoading =>
          /\ session'.appState = GENERATING_TITLES
          /\ titleCalls' = Append(titleCalls, [kind |-> "titles", topic |-> form.topic,
                                                 lang |-> form.language])
          /\ wsCalls' = wsCalls
     /\ Submitted /\ Trim(form.topic) = <<>> =>
          UNCHANGED <<app, queued, form, titleCalls, ws, pending, wsCalls>>
     /\ TitlesArrived =>
          /\ session'.appState = TITLES_DISPLAYED
          /\ session'.generatedTitles = last'.result.value]_vars

\* C5: a title call has returned a list of two strings, one of them empty,
\* and the list is the one to display.
C5_Witness ==
  /\ last.op = "TitlesDone" /\ last.result.ok
  /\ last.result.value = <<"t1", "">>
  /\ session.appState = TITLES_DISPLAYED
  /\ session.generatedTitles = <<"t1", "">>

\* C6: after start over the session is in TITLE_INPUT with every field at its
\* initial value (topic, language, titles, selected title, error) and no
\* workspace data.
C6_StartOverResetsEverything ==
  last.op = "handleStartOver" => session = AppInit /\ state = WsInit

\* The generate click finds subject 1 missing, or subject 2 in two-subject
\* mode, on the page as rendered.
GenerateWithoutSubject ==
  /\ last'.op = "handleGenerateClick"
  /\ ws.mainSubject1 = NoImage \/ (ws.numSubjects = 2 /\ ws.mainSubject2 = NoImage)

\* C7: a generate action without subject 1, or in two-subject mode without
\* subject 2, issues no call, sets an error message and leaves everything else
\* of the workspace (history, cursor, suggestions, busy flag) unchanged.  The
\* render the click causes runs an effect of the previous render that is
\* still pending, and its own effect when it shows a thumbnail queued before
\* the click; the suggestion fetch of such an effect is not the action's.
C7_MissingSubjectRejected ==
  [][GenerateWithoutSubject =>
       LET s == [Flushed(state) EXCEPT !.error = state'.error]
       IN /\ state'.error /= NULL
          /\ IF EffectFires(s)
             THEN /\ state' = handleGetSuggestions(s)
                  /\ wsCalls' = Append(FlushedCalls(wsCalls), WsCall("suggest", s))
             ELSE /\ state' = s
                  /\ wsCalls' = FlushedCalls(wsCalls)]_vars

\* C7: with one thumbnail in the history, generate was clicked in two-subject
\* mode without subject 2 and was rejected.
C7_Witness ==
  /\ last.op = "handleGenerateClick" /\ ~last.result.ok
  /\ state.numSubjects = 2 /\ state.mainSubject1 /= NoImage /\ state.mainSubject2 = NoImage
  /\ state.thumbnailHistory /= <<>>
  /\ state.error = "Please upload all main subject photos."

\* The steps of a generate action: the click, its analysis settling, its
\* thumbnail call settling; and the two on which the action fails.
GenerateSteps == last'.op \in {"handleGenerateClick", "GenerateAnalyzed", "GenerateDone"}
GenerateFailed == last'.op \in {"GenerateAnalyzed", "GenerateDone"} /\ ~last'.result.ok

\* C8: a generate action that fails (its style analysis or its thumbnail call
\* throws, the latter also when no image comes back) never changes the history
\* or the cursor: not on the click, not when the analysis settles, not when the
\* failure arrives; the failure sets an error message and the busy flag to idle.
C8_FailedGenerateKeepsHistory ==
  [][/\ GenerateSteps /\ ~Appended =>
          /\ state'.thumbnailHistory = state.thumbnailHistory
          /\ state'.currentIndex = state.currentIndex
     /\ GenerateFailed =>
          /\ state'.error /= NULL
          /\ state'.loading = NONE]_vars

\* C8: with a thumbnail in the history, the implicit analysis of a generate
\* action has failed.
C8_Witness ==
  /\ last.op = "GenerateAnalyzed" /\ ~last.result.ok
  /\ state.thumbnailHistory /= <<>>
  /\ state.error = "Failed to generate thumbnail."
  /\ state.loading = NONE

\* The steps on which an edit call resolves with an image / fails.
EditSucceeded == last'.op = "EditDone" /\ last'.result.ok
EditFailed == last'.op = "EditDone" /\ ~last'.result.ok

\* What every successful edit does besides the length of the history: the
\* entry before the new one is the thumbnail that was active at the request,
\* the new entry is the active one, and the typed instruction is empty.
EditLands ==
  LET c == last'.call
      n == Len(state'.thumbnailHistory)
  IN /\ n >= 2
     /\ state'.thumbnailHistory[n - 1] = c.hist[c.idx + 1]
     /\ state'.thumbnailHistory[n] = last'.result.value
     /\ state'.currentIndex = n - 1
     /\ state'.editInstruction = <<>>

\* C9 (as stated): a successful edit makes the history exactly one entry longer
\* than it was when the edit was requested, whatever the cursor position; the
\* new entry follows the thumbnail that was active at the request, becomes
\* active, and the typed instruction field is emptied.
C9_GrowsByOne ==
  [][EditSucceeded =>
       /\ Len(state'.thumbnailHistory) = Len(last'.call.hist) + 1
       /\ EditLands]_vars

\* C9 (amended): a successful edit makes the history the entries up to and
\* including the thumbnail that was active at the request, followed by the new
\* entry (entries after that thumbnail are discarded); the new entry becomes
\* active, and the typed instruction field is emptied.
C9_EditAppendsAtCursor ==
  [][EditSucceeded =>
       /\ state'.thumbnailHistory =
            Append(SubSeq(last'.call.hist, 1, last'.call.idx + 1), last'.result.value)
       /\ EditLands]_vars

\* C9: an edit requested with the cursor before the end of the history has
\* succeeded.
C9_Witness ==
  /\ last.op = "EditDone" /\ last.result.ok
  /\ last.call.idx + 1 < Len(last.call.hist)
  /\ state.thumbnailHistory = <<last.call.hist[1], last.result.value>>
  /\ state.currentIndex = 1

\* C10 (as stated): a failed edit leaves history and cursor unchanged and sets
\* an error; the typed instruction is kept on the typed path and only there,
\* a failed suggestion edit does not keep typed text.
C10_TypedTextKeptOnTypedPathOnly ==
  [][EditFailed =>
       /\ state'.thumbnailHistory = state.thumbnailHistory
       /\ state'.currentIndex = state.currentIndex
       /\ state'.error /= NULL
       /\ last'.call.via = "typed" => state'.editInstruction = state.editInstruction
       /\ last'.call.via = "suggestion" /\ state.editInstruction /= <<>>
            => state'.editInstruction /= state.editInstruction]_vars

\* C10 (amended): a failed edit leaves history and cursor unchanged and sets
\* an error; the typed instruction is left as it was on both paths.
C10_FailedEditKeepsTypedText ==
  [][EditFailed =>
       /\ state'.thumbnailHistory = state.thumbnailHistory
       /\ state'.currentIndex = state.currentIndex
       /\ state'.error /= NULL
       /\ state'.editInstruction = state.editInstruction]_vars

\* C10: a suggestion edit has failed with text typed in the field.
C10_Witness ==
  /\ last.op = "EditDone" /\ ~last.result.ok
  /\ last.call.via = "suggestion"
  /\ state.editInstruction /= <<>>
  /\ state.error = "Failed to apply the edit."

\* The steps of generate and edit actions, and undo and redo.
HistorySteps ==
  last'.op \in {"handleGenerateClick", "GenerateDone", "handleApplyEdit", "EditDone",
                "handleUndo", "handleRedo"}
GenerateStarted == last'.op = "handleGenerateClick" /\ last'.result.ok
Emptied == state.suggestions /= <<>> /\ state'.suggestions = <<>>

\* C11 (as stated): the suggestion list is emptied exactly when a thumbnail is
\* successfully generated or edited: each such success leaves it empty, and no
\* other step of a generate or edit action, undo or redo empties it.
C11_ClearedOnSuccessOnly ==
  [][/\ Appended => state'.suggestions = <<>>
     /\ HistorySteps /\ Emptied => Appended]_vars

\* C11 (amended): the suggestion list is emptied exactly when a generate action
\* passes its subject check and starts, whether it later succeeds or fails;
\* the completion of a generation, an edit (started, succeeded or failed), a
\* rejected generate action, undo and redo leave the list as it was.
C11_ClearedWhenGenerateStarts ==
  [][/\ GenerateStarted => state'.suggestions = <<>>
     /\ HistorySteps /\ ~GenerateStarted => state'.suggestions = state.suggestions]_vars

\* C11: an edit made from a suggestion has succeeded and the list is still there.
C11_Witness ==
  /\ last.op = "EditDone" /\ last.result.ok /\ last.call.via = "suggestion"
  /\ state.suggestions /= <<>>
  /\ state.loading = NONE

\* The suggestion fetches in flight.
SuggestFetches(calls) == {k \in 1..Len(calls) : calls[k].kind = "suggest"}

\* The step starts a suggestion fetch.
FetchStarted == Cardinality(SuggestFetches(wsCalls')) > Cardinality(SuggestFetches(wsCalls))

\* C12: no step of an edit (its start, its success, its failure) changes the
\* suggestion list, and the render of an edit's thumbnail with suggestions
\* shown starts no suggestion fetch that would replace them: a fetch is due,
\* or started, only by the effect of a render that shows an empty list.
C12_EditKeepsSuggestions ==
  [][/\ last'.op \in {"handleApplyEdit", "EditDone"} =>
          state'.suggestions = state.suggestions
     /\ pending'.effect => ws'.suggestions = <<>>
     /\ FetchStarted =>
          IF pending.effect THEN ws.suggestions = <<>> ELSE ws'.suggestions = <<>>]_vars

\* C12: a typed edit has succeeded, the suggestions shown before it are still
\* shown and no fetch is in flight.
C12_Witness ==
  /\ last.op = "EditDone" /\ last.result.ok /\ last.call.via = "typed"
  /\ state.suggestions /= <<>>
  /\ SuggestFetches(wsCalls) = {}

\* C13: a suggestion fetch started for thumbnail X that resolves when the
\* active thumbnail is no longer X does not set the suggestion list.
C13_StaleSuggestionsDiscarded ==
  [][last'.op = "SuggestionsDone" /\ last'.call.thumb /= CurrentThumbnail(state)
       => state'.suggestions = state.suggestions]_vars

\* The step renders another, non-empty thumbnail as the active one, with an
\* empty suggestion list, while no suggestion fetch is in flight or about to
\* be started.
ThumbnailChanged ==
  CurrentThumbnail(ws') /= CurrentThumbnail(ws) /\ CurrentThumbnail(ws') /= NULL
NumFetches == Cardinality(SuggestFetches(wsCalls))
FetchDue ==
  /\ ThumbnailChanged /\ ws'.suggestions = <<>>
  /\ SuggestFetches(wsCalls) = {} /\ ~pending.effect

\* The step starts a suggestion fetch for the thumbnail it renders, or leaves
\* the effect that starts one to run.
FetchFollows ==
  \/ pending'.effect
  \/ \E k \in SuggestFetches(wsCalls') :
       k > Len(wsCalls) /\ wsCalls'[k].thumb = CurrentThumbnail(ws')

\* C14: every change of the active thumbnail to a non-empty value that happens
\* while no suggestion fetch is in flight and the suggestion list is empty
\* starts a suggestion fetch: the effect of that render starts one.
C14_ChangeStartsFetch == [][FetchDue => FetchFollows]_vars

\* C15: at most one suggestion fetch is in flight.
C15_OneSuggestionFetch == NumFetches <= 1

\* C16: the completion of a suggestion fetch leaves the busy flag as it was, a
\* started fetch does not show in the busy flag, and a thumbnail change that is
\* due a fetch (list empty, none in flight) starts it also while a generation
\* or edit is pending.
C16_FetchIndependentOfBusyFlag ==
  [][/\ last'.op = "SuggestionsDone" => state'.loading = state.loading
     /\ state'.loading = SUGGESTING => state.loading = SUGGESTING
     /\ FetchDue /\ ws'.loading \in {GENERATING, EDITING, ANALYZING}
          => FetchFollows]_vars

\* C17: a failed suggestion fetch leaves the error message, the suggestion
\* list, the history and the cursor as they were.
C17_FailedFetchIsSilent ==
  [][last'.op = "SuggestionsDone" /\ ~last'.result.ok =>
       /\ state'.error = state.error
       /\ state'.suggestions = state.suggestions
       /\ state'.thumbnailHistory = state.thumbnailHistory
       /\ state'.currentIndex = state.currentIndex]_vars

\* C17: a suggestion fetch has failed while an error of an edit was shown.
C17_Witness ==
  /\ last.op = "SuggestionsDone" /\ ~last.result.ok
  /\ state.error = "Failed to apply the edit."
  /\ state.thumbnailHistory /= <<>>

\* C18: a generate action that starts issues a style-analysis call exactly
\* when a reference is present and no analysis is stored (one computed for the
\* present reference set is stored until a reference is added or removed);
\* otherwise it issues the thumbnail call with the stored description.  The
\* references and the description are those on the page at the click.
C18_AnalysisOnlyWhenNotCached ==
  [][GenerateStarted =>
       LET c == wsCalls'[Len(wsCalls) + 1]
       IN /\ c.kind = "generateAnalyze"
               <=> (ws.referencePreviews /= <<>> /\ ws.analyzedStyle = NULL)
          /\ c.kind = "generate" => c.style = ws.analyzedStyle]_vars

\* No analyzed style description is there to show or to send.
StyleAbsent(w) == ~Truthy(w.analyzedStyle)
AnalysisCompleted == last'.op \in {"AnalyzeDone", "GenerateAnalyzed"}

\* C19: removing a reference leaves the analyzed style absent; added references
\* leave it absent when their previews arrive; an absent style becomes present
\* only when an analysis call completes, and not by a call that was started
\* before the removal (with every reference removed no call can have been
\* started since, so none that completes then brings a description back).
C19_RemovalKeepsStyleAbsent ==
  [][/\ last'.op = "handleRemoveReference" => StyleAbsent(state')
     /\ last'.op = "FileEncoded" /\ last'.call.kind = "encodeReference" /\ last'.result.ok
          => StyleAbsent(state')
     /\ StyleAbsent(state) /\ ~StyleAbsent(state') => AnalysisCompleted
     /\ AnalysisCompleted /\ state.referencePreviews = <<>> => StyleAbsent(state')]_vars

\* C20: a user action of the workspace that is carried out (undo, redo, a
\* generate action that starts, an edit that starts) leaves no error message
\* displayed.
C20_NextActionClearsError ==
  [][last'.op \in {"handleUndo", "handleRedo", "handleGenerateClick", "handleApplyEdit"}
       /\ last'.result.ok
       => state'.error = NULL]_vars

\* the files of a list of background images
FilesOf(images) == [j \in 1..Len(images) |-> images[j].file]

\* the first n elements of a list (the claim's "up to the cap")
FirstN(sq, n) == [j \in 1..(IF Len(sq) < n THEN Len(sq) ELSE n) |-> sq[j]]

ReferenceUploadStarted ==
  last'.op = "handleFileChange" /\ last'.call.kind = "encodeReference"

BackgroundUploadDone ==
  last'.op = "FileEncoded" /\ last'.call.kind = "encodeBackground" /\ last'.result.ok

ReferenceUploadDone ==
  last'.op = "FileEncoded" /\ last'.call.kind = "encodeReference" /\ last'.result.ok

\* C21: after every step the background list holds at most 5 images and the
\* reference list (files and previews) at most 3; a reference upload keeps the
\* existing files followed by the first of the selected ones up to 3, a
\* completed background upload keeps the existing images followed by the first
\* of the new ones up to 5, and neither sets an error.
C21_ListsCapped ==
  [][/\ Len(state'.backgroundImages) <= 5
     /\ Len(state'.referenceFiles) <= 3 /\ Len(state'.referencePreviews) <= 3
     /\ ReferenceUploadStarted
          => /\ \E files \in RefSelections :
                  state'.referenceFiles = FirstN(state.referenceFiles \o files, 3)
             /\ state'.error = state.error
     /\ ReferenceUploadDone
          => /\ state'.referencePreviews
                  = [j \in 1..Len(last'.call.files) |-> fileToBase64(last'.call.files[j])]
             /\ Len(last'.call.files) <= 3
             /\ state'.error = state.error
     /\ BackgroundUploadDone
          => /\ FilesOf(state'.backgroundImages)
                  = FirstN(FilesOf(state.backgroundImages) \o last'.call.files, 5)
             /\ state'.error = state.error]_vars

\* a two-file background upload completes on four images: the first new file
\* is the fifth image and the second is dropped, with no error
C21_Witness ==
  /\ last.op = "FileEncoded" /\ last.call.kind = "encodeBackground" /\ last.result.ok
  /\ last.call.files = <<"big.png", "bg.png">>
  /\ Len(state.backgroundImages) = 5 /\ state.backgroundImages[5].file = "big.png"
  /\ state.error = NULL

UploadChosen(kinds) == last'.op = "handleFileChange" /\ last'.call.kind \in kinds

MainSlots(w) == <<w.mainSubject1, w.mainSubject2>>

\* C22: a main-subject file is accepted exactly when its size is at most
\* 4 * 1024 * 1024 bytes (the limit itself included): an accepted one clears
\* the error, starts its encoding and, once encoded, fills its slot; a larger
\* one sets the error, starts nothing and leaves both slots as they were.
\* Background and reference files are accepted whatever their size, with the
\* error left as it was.
C22_MainSubjectSizeLimit ==
  [][/\ UploadChosen({"encodeMain"})
          => /\ last'.result.ok <=> size(last'.call.files[1]) <= 4 * 1024 * 1024
             /\ MainSlots(state') = MainSlots(state)
             /\ IF last'.result.ok
                THEN state'.error = NULL /\ wsCalls' = Append(wsCalls, last'.call)
                ELSE state'.error = "Image file is too large. Max 4MB." /\ wsCalls' = wsCalls
     /\ last'.op = "FileEncoded" /\ last'.call.kind = "encodeMain" /\ last'.result.ok
          => /\ last'.call.slot = "main1" => state'.mainSubject1.file = last'.call.files[1]
             /\ last'.call.slot = "main2" => state'.mainSubject2.file = last'.call.files[1]
             /\ size(last'.call.files[1]) <= 4 * 1024 * 1024
     /\ UploadChosen({"encodeReference", "encodeBackground"})
          => /\ last'.result.ok /\ state'.error = state.error
             /\ wsCalls' = Append(wsCalls, last'.call)]_vars

\* an oversized main file is refused after a file of exactly the limit filled
\* the slot, with an oversized background image in the list
C22_Witness ==
  /\ last.op = "handleFileChange" /\ last.call.kind = "encodeMain" /\ ~last.result.ok
  /\ size(last.call.files[1]) > 4 * 1024 * 1024
  /\ state.error /= NULL
  /\ state.mainSubject1 /= NoImage /\ size(state.mainSubject1.file) = 4 * 1024 * 1024
  /\ \E j \in 1..Len(state.backgroundImages) :
       size(state.backgroundImages[j].file) > 4 * 1024 * 1024

\* C23: every selection of a title mounts a workspace with an empty history and
\* no active thumbnail; the completion of a call started in a workspace that
\* has been left changes nothing of the workspace now open, and the history
\* changes only by the completion of a generate or edit call of this visit
\* (or by leaving and entering).
C23_EveryVisitStartsEmpty ==
  [][/\ last'.op = "handleTitleSelect"
          => /\ state'.thumbnailHistory = <<>> /\ state'.currentIndex = -1
             /\ CurrentThumbnail(state') = NULL
     /\ last'.op = "OrphanDone" => state' = state
     /\ state'.thumbnailHistory /= state.thumbnailHistory
          => \/ last'.op \in {"GenerateDone", "EditDone"} /\ last'.call.live
             \/ last'.op \in {"onBack", "handleTitleSelect", "handleStartOver"}]_vars

\* a generate or edit call of an earlier visit completes successfully while
\* the workspace entered since has a subject and still an empty history
C23_Witness ==
  /\ last.op = "OrphanDone" /\ last.call.kind \in {"generate", "edit"} /\ last.result.ok
  /\ WsMounted /\ state.mainSubject1 /= NoImage
  /\ state.thumbnailHistory = <<>> /\ state.currentIndex = -1

\* C24: an edit action with blank instruction text (or with no active
\* thumbnail) issues no call, displays a message and changes nothing else of
\* the workspace.
C24_BlankEditRejectedWithMessage ==
  [][last'.op = "handleApplyEdit" /\ ~last'.result.ok
       => /\ wsCalls' = wsCalls
          /\ state'.error /= NULL
          /\ [state' EXCEPT !.error = state.error] = state]_vars

\* the positions of the parts that carry an image payload
ImageParts(items) == {j \in 1..Len(items) : items[j].t = "inlineData"}

FirstImagePart(items) ==
  CHOOSE j \in ImageParts(items) : \A i \in ImageParts(items) : j <= i

\* C25: generateThumbnail and editThumbnail return the first image payload
\* found among the parts of the answer, and fail only when no part carries one.
C25_FirstImageAmongParts ==
  [][last'.op \in {"generateThumbnail", "editThumbnail"}
       => LET resp == last'.call.resp
          IN IF resp.kind = "parts" /\ ImageParts(resp.items) /= {}
             THEN /\ last'.result.ok
                  /\ last'.result.value
                       = "data:image/png;base64," \o resp.items[FirstImagePart(resp.items)].data
             ELSE ~last'.result.ok]_vars

Says(req, sentence) == \E j \in 1..Len(req.text) : req.text[j] = sentence

Opposing == "Create a composition with the two subjects on opposing sides. "
SideBySide == "Place the two subjects side-by-side in a friendly composition. "
Prominent == "Place the main subject(s) prominently. "

\* the thumbnail request a click on Generate has just sent
RequestSent ==
  /\ last'.op = "handleGenerateClick" /\ last'.result.ok
  /\ wsCalls'[Len(wsCalls) + 1].kind = "generate"

DataOf(images) == [j \in 1..Len(images) |-> images[j].data]

\* C26: with preset Versus/Comparison and 2 subjects the request sent says
\* "opposing sides", carries the selected title as it is, and carries the
\* images of subject 1, subject 2 and then the backgrounds in upload order;
\* it says "side-by-side" exactly for preset Collaboration with 2 subjects,
\* and "prominently" for every other combination.  Preset, subjects and
\* backgrounds are those on the page at the click.
C26_LayoutInstructionAndImageOrder ==
  [][RequestSent
       => LET req == wsCalls'[Len(wsCalls) + 1].req
              versus == ws.layoutPreset = "Versus/Comparison" /\ ws.numSubjects = 2
              collab == ws.layoutPreset = "Collaboration" /\ ws.numSubjects = 2
          IN /\ versus
                  => /\ Says(req, Opposing)
                     /\ Says(req, "The video title is \"" \o app.selectedTitle \o "\".\n\n")
                     /\ DataOf(req.inlineData)
                          = <<ws.mainSubject1.file, ws.mainSubject2.file>>
                              \o FilesOf(ws.backgroundImages)
             /\ Says(req, Opposing) <=> versus
             /\ Says(req, SideBySide) <=> collab
             /\ Says(req, Prominent) <=> ~versus /\ ~collab]_vars

\* a Versus/Comparison request with two subjects and two background images
C26_Witness ==
  /\ last.op = "handleGenerateClick" /\ last.result.ok
  /\ state.layoutPreset = "Versus/Comparison" /\ state.numSubjects = 2
  /\ Len(state.backgroundImages) = 2
  /\ wsCalls /= <<>> /\ wsCalls[Len(wsCalls)].kind = "generate"
  /\ DataOf(wsCalls[Len(wsCalls)].req.inlineData) = <<"ok.png", "ref.png", "big.png", "bg.png">>

\* the calls of the mounted workspace that are in flight, by busy value
InFlight(kinds) == \E k \in 1..Len(wsCalls) : wsCalls[k].live /\ wsCalls[k].kind \in kinds

\* C27: the busy flag is NONE only with no analysis, generation, edit or
\* suggestion call in flight, and a busy value only with a call of its kind in
\* flight.
C27_BusyFlagAccurate ==
  /\ state.loading = NONE
       => ~InFlight({"analyze", "generateAnalyze", "generate", "edit", "suggest"})
  /\ state.loading = ANALYZING => InFlight({"analyze"})
  /\ state.loading = GENERATING => InFlight({"generateAnalyze", "generate"})
  /\ state.loading = EDITING => InFlight({"edit"})
  /\ state.loading = SUGGESTING => InFlight({"suggest"})

Holds(history, thumbnail) == \E j \in 1..Len(history) : history[j] = thumbnail

\* C28: the completion of a generate or edit call never removes the thumbnail
\* that was active just before it (so that of two overlapping calls that both
\* succeed, the result of the first is still in the history after the second).
C28_NoThumbnailLostToOverlap ==
  [][Appended /\ CurrentThumbnail(state) /= NULL
       => Holds(state'.thumbnailHistory, CurrentThumbnail(state))]_vars

\* C29: a cached style description is there only with references, and an
\* analysis (explicit or within a generation) whose references are no longer
\* the current ones when it completes does not store its result.
C29_CachedStyleMatchesReferences ==
  [][/\ Truthy(state'.analyzedStyle) => state'.referencePreviews /= <<>>
     /\ AnalysisCompleted /\ last'.result.ok /\ last'.call.refs /= state.referencePreviews
          => state'.analyzedStyle = state.analyzedStyle]_vars

\* C30: the session leaves the thumbnail workspace only by Back to Titles or
\* Start Over; no completion of a title call moves it out.
C30_WorkspaceLeftOnlyByUser ==
  [][session.appState = THUMBNAIL_INPUT /\ session'.appState /= THUMBNAIL_INPUT
       => last'.op \in {"onBack", "handleStartOver"}]_vars

\* the session as start over leaves it
StartedOver(a) ==
  a.appState = TITLE_INPUT /\ a.generatedTitles = <<>> /\ a.error = NULL

\* C31: start over leaves the session in TITLE_INPUT with no titles and no
\* error, and from there every step other than a submit that is carried out
\* (the completion of a title call in flight included) keeps it so.
C31_StartOverOutlastsTitleCall ==
  [][/\ last'.op = "handleStartOver" => StartedOver(session')
     /\ StartedOver(session) /\ ~(last'.op = "handleSubmit" /\ last'.result.ok)
          => StartedOver(session')]_vars

\* C32: the session language is the one under which the listed titles were
\* generated: a list that arrives was requested in the session language, and
\* while titles are listed the language changes only with the arrival of a
\* list requested in the new language; a title selection that enters the
\* workspace keeps language and list, so the workspace gets the language of the selected title's request.
C32_LanguageOfListedTitles ==
  [][/\ TitlesArrived /\ last'.result.value /= <<>> => session'.language = last'.call.lang
     /\ session.generatedTitles /= <<>> /\ session'.generatedTitles /= <<>>
          /\ session'.language /= session.language
          => TitlesArrived /\ session'.language = last'.call.lang
     /\ last'.op = "handleTitleSelect" /\ session'.appState = THUMBNAIL_INPUT
          => /\ session'.language = session.language
             /\ session'.generatedTitles = session.generatedTitles]_vars

\* C33: the request a click on Generate sends carries exactly numSubjects
\* subject images ahead of the background images: the photo of subject 1
\* alone in one-subject mode, a held photo of subject 2 or not, and the photos
\* of subjects 1 and 2 in two-subject mode; the count, the photos and the
\* backgrounds are those on the page at the click.
C33_SubjectPayloadsMatchCount ==
  [][RequestSent
       => LET req == wsCalls'[Len(wsCalls) + 1].req
          IN /\ Len(req.inlineData) = ws.numSubjects + Len(ws.backgroundImages)
             /\ DataOf(req.inlineData)
                  = (IF ws.numSubjects = 1 THEN <<ws.mainSubject1.file>>
                     ELSE <<ws.mainSubject1.file, ws.mainSubject2.file>>)
                      \o FilesOf(ws.backgroundImages)]_vars

\* a request sent in one-subject mode while a photo of subject 2 is held
C33_Witness ==
  /\ last.op = "handleGenerateClick" /\ last.result.ok
  /\ state.numSubjects = 1 /\ state.mainSubject2 /= NoImage
  /\ wsCalls /= <<>> /\ wsCalls[Len(wsCalls)].kind = "generate"
  /\ Len(wsCalls[Len(wsCalls)].req.inlineData) = 1 + Len(state.backgroundImages)
  /\ wsCalls[Len(wsCalls)].req.inlineData[1].data = "ok.png"

====
